---- MODULE Spec2Model ----
(***************************************************************************)
(* A model of the two adapters of logdna-agent-v2:                         *)
(*   - common/journald/src/lib.rs: JournaldStream, the bridge between the  *)
(*     blocking journal reader (a worker thread) and an async Stream;      *)
(*   - common/k8s/src/middleware.rs: K8sMiddleware, the pod metadata cache *)
(*     and the enrichment of log lines.                                    *)
(* Strings are sequences of characters or tokens, an Option is a sequence  *)
(* of length 0 (None) or 1 (Some).                                         *)
(***************************************************************************)
EXTENDS Integers, Sequences, FiniteSets, TLC

None == <<>>

Some(x) == <<x>>

IsSome(o) == o # <<>>

Unwrap(o) == o[1]

(***************************************************************************)
(* Bounds of the model.                                                    *)
(***************************************************************************)
\* capacity of the queue between worker and bridge, sync_channel(100) in
\* lib.rs:77, scaled down so that a full queue is reached
ChannelBound == 2

\* records the environment appends to the journal
MaxRecords == 4

\* faults (open failure, reader fault, wait error) the environment injects
MaxFaults == 2

\* watch events with a name and a namespace in a recorded history
MaxEvents == 2

(***************************************************************************)
(* journald: the record formatter (lib.rs:218-339).                        *)
(***************************************************************************)
KEY_TRANSPORT == "_TRANSPORT"

KEY_HOSTNAME == "_HOSTNAME"

KEY_COMM == "_COMM"

KEY_PID == "_PID"

KEY_MESSAGE == "MESSAGE"

RecordKeys == {KEY_TRANSPORT, KEY_HOSTNAME, KEY_COMM, KEY_PID, KEY_MESSAGE}

TRANSPORT_AUDIT == "audit"

TRANSPORT_DRIVER == "driver"

TRANSPORT_SYSLOG == "syslog"

TRANSPORT_JOURNAL == "journal"

TRANSPORT_STDOUT == "stdout"

TRANSPORT_KERNEL == "kernel"

\* RecordStatus
BadLine == [tag |-> "BadLine"]

NoLines == [tag |-> "NoLines"]

\* LineBuilder::new().line(text).file(file)
LineBuilder(text, file) ==
    [line |-> text, file |-> Some(file), labels |-> None, annotations |-> None]

Line(lb) == [tag |-> "Line", line |-> lb]

\* record.get(key): Some(value) or None
Get(record, key) == record[key]

process_audit_record(record, timestamp) ==
    IF ~IsSome(Get(record, KEY_HOSTNAME)) THEN BadLine
    ELSE IF ~IsSome(Get(record, KEY_PID)) THEN BadLine
    ELSE IF ~IsSome(Get(record, KEY_MESSAGE)) THEN BadLine
    ELSE LET hostname == Unwrap(Get(record, KEY_HOSTNAME))
             pid == Unwrap(Get(record, KEY_PID))
             message == Unwrap(Get(record, KEY_MESSAGE))
         IN  Line(LineBuilder(
                 <<timestamp, " ", hostname, " audit[", pid, "]: ", message>>,
                 hostname))

process_default_record(record, timestamp) ==
    IF ~IsSome(Get(record, KEY_HOSTNAME)) THEN BadLine
    ELSE IF ~IsSome(Get(record, KEY_COMM)) THEN BadLine
    ELSE IF ~IsSome(Get(record, KEY_PID)) THEN BadLine
    ELSE IF ~IsSome(Get(record, KEY_MESSAGE)) THEN BadLine
    ELSE LET hostname == Unwrap(Get(record, KEY_HOSTNAME))
             comm == Unwrap(Get(record, KEY_COMM))
             pid == Unwrap(Get(record, KEY_PID))
             message == Unwrap(Get(record, KEY_MESSAGE))
         IN  Line(LineBuilder(
                 <<timestamp, " ", hostname, " ", comm, "[", pid, "]: ", message>>,
                 hostname))

\* a kernel record handled as the records of the default transports
process_kernel_record_as_default(record, timestamp) ==
    process_default_record(record, timestamp)

process_kernel_record(record, timestamp) ==
    IF ~IsSome(Get(record, KEY_HOSTNAME)) THEN BadLine
    ELSE IF ~IsSome(Get(record, KEY_MESSAGE)) THEN BadLine
    ELSE LET hostname == Unwrap(Get(record, KEY_HOSTNAME))
             message == Unwrap(Get(record, KEY_MESSAGE))
         IN  Line(LineBuilder(
                 <<timestamp, " ", hostname, " kernel: ", message>>,
                 hostname))

\* the dispatch on the transport of a record that was read
format_record(record, timestamp) ==
    IF ~IsSome(Get(record, KEY_TRANSPORT)) THEN BadLine
    ELSE LET transport == Unwrap(Get(record, KEY_TRANSPORT))
         IN  IF transport = TRANSPORT_AUDIT
               THEN process_audit_record(record, timestamp)
             ELSE IF transport \in {TRANSPORT_DRIVER, TRANSPORT_SYSLOG,
                                    TRANSPORT_JOURNAL, TRANSPORT_STDOUT}
               THEN process_default_record(record, timestamp)
             ELSE IF transport = TRANSPORT_KERNEL
               THEN process_kernel_record(record, timestamp)
             ELSE BadLine

\* process_next_record on a journal (a sequence of records) read up to cur:
\* next_entry gives the record after the cursor or nothing; the timestamp of
\* a record is its position in the journal
process_next_record(jrn, cur) ==
    IF cur < Len(jrn) THEN format_record(jrn[cur + 1], cur + 1) ELSE NoLines

\* the records the environment writes to the journal of the stream
SyslogRecord ==
    [k \in RecordKeys |->
        CASE k = KEY_TRANSPORT -> Some(TRANSPORT_SYSLOG)
          [] k = KEY_HOSTNAME -> Some("host")
          [] k = KEY_COMM -> Some("sshd")
          [] k = KEY_PID -> Some("42")
          [] k = KEY_MESSAGE -> Some("msg")]

NoTransportRecord == [SyslogRecord EXCEPT ![KEY_TRANSPORT] = None]

StreamRecords == {SyslogRecord, NoTransportRecord}

JournalPaths == {"Directory", "Files"}

(***************************************************************************)
(* k8s: paths, pods and the pod metadata (middleware.rs).                  *)
(***************************************************************************)
Lower == {"a", "b", "c", "d", "e", "f", "g", "h", "i", "j", "k", "l", "m",
          "n", "o", "p", "q", "r", "s", "t", "u", "v", "w", "x", "y", "z"}

Upper == {"A", "B", "C", "D", "E", "F", "G", "H", "I", "J", "K", "L", "M",
          "N", "O", "P", "Q", "R", "S", "T", "U", "V", "W", "X", "Y", "Z"}

Digit == {"0", "1", "2", "3", "4", "5", "6", "7", "8", "9"}

\* [a-z0-9A-Z\-.]
NameChar == Lower \cup Digit \cup Upper \cup {"-", "."}

\* [a-z0-9]
IdChar == Lower \cup Digit

\* the {64} of K8S_REG
IdLen == 64

ContainersDir ==
    <<"/", "v", "a", "r", "/", "l", "o", "g", "/",
      "c", "o", "n", "t", "a", "i", "n", "e", "r", "s", "/">>

\* K8S_REG (middleware.rs:25-29) on a path:
\*   ^/var/log/containers/(N+)_(N+)_(N+)-([a-z0-9]{64}).log$
\* with N = [a-z0-9A-Z\-.]; the pattern is anchored at both ends, so the
\* last three characters are "log", the one before is any character but a
\* line feed, the 64 before are the id and the one before them is "-".
\* Gives the captures 1 and 2, or None.
K8S_REG(p) ==
    LET n == Len(p)
        d == Len(ContainersDir)
        dash == n - (IdLen + 4)
        mid == SubSeq(p, d + 1, dash - 1)
        us == {i \in 1..Len(mid) : mid[i] = "_"}
    IN  IF n < d + 5 + 1 + IdLen + 4 THEN None
        ELSE IF SubSeq(p, 1, d) # ContainersDir THEN None
        ELSE IF SubSeq(p, n - 2, n) # <<"l", "o", "g">> THEN None
        ELSE IF p[n - 3] = "\n" THEN None
        ELSE IF \E i \in (dash + 1)..(n - 4) : p[i] \notin IdChar THEN None
        ELSE IF p[dash] # "-" THEN None
        ELSE IF Cardinality(us) # 2 THEN None
        ELSE IF \E i \in 1..Len(mid) : mid[i] \notin NameChar \cup {"_"} THEN None
        ELSE LET u1 == CHOOSE i \in us : \A j \in us : i <= j
                 u2 == CHOOSE i \in us : \A j \in us : j <= i
             IN  IF u1 = 1 \/ u2 = u1 + 1 \/ u2 = Len(mid) THEN None
                 ELSE Some(<<SubSeq(mid, 1, u1 - 1),
                             SubSeq(mid, u1 + 1, u2 - 1)>>)

\* parse_container_path (middleware.rs:245-251): Option<(name, namespace)>
parse_container_path(p) == K8S_REG(p)

\* format!("{}_{}", name, namespace)
Key(name, namespace) == name \o <<"_">> \o namespace

\* KeyValueMap::new()
EmptyMap == {}

\* TryFrom<Pod> for PodMetadata (middleware.rs:212-243): Some(PodMetadata),
\* or None for the error
try_from(pod) ==
    IF ~IsSome(pod.metadata) THEN None
    ELSE LET m == Unwrap(pod.metadata)
         IN  IF ~IsSome(m.name) THEN None
             ELSE IF ~IsSome(m.namespace) THEN None
             ELSE Some([name |-> Unwrap(m.name),
                        namespace |-> Unwrap(m.namespace),
                        labels |-> IF IsSome(m.labels) THEN Unwrap(m.labels)
                                   ELSE EmptyMap,
                        annotations |-> IF IsSome(m.annotations)
                                          THEN Unwrap(m.annotations)
                                        ELSE EmptyMap])

\* HashMap::insert
Insert(map, k, v) ==
    [x \in DOMAIN map \cup {k} |-> IF x = k THEN v ELSE map[x]]

\* HashMap::remove
Remove(map, k) == [x \in DOMAIN map \ {k} |-> map[x]]

\* the Modified arm (middleware.rs:124-140) on a converted pod
modify_creating(map, v) == Insert(map, Key(v.name, v.namespace), v)

\* a Modified arm that replaces the labels and keeps the annotations
modify_labels_only(map, v) ==
    LET k == Key(v.name, v.namespace)
    IN  IF k \in DOMAIN map THEN [map EXCEPT ![k].labels = v.labels] ELSE map

modify(map, v) ==
    LET k == Key(v.name, v.namespace)
    IN  IF k \in DOMAIN map
          THEN [map EXCEPT ![k].labels = v.labels,
                           ![k].annotations = v.annotations]
          ELSE map

\* an Added arm that keeps an entry that is already there
add_keeping(map, v) ==
    IF Key(v.name, v.namespace) \in DOMAIN map THEN map
    ELSE Insert(map, Key(v.name, v.namespace), v)

\* the Added arm (middleware.rs:110-123) on a converted pod
add(map, v) == Insert(map, Key(v.name, v.namespace), v)

\* handle_pod (middleware.rs:108-160): the metadata map after the event
handle_pod(map, event) ==
    IF event.kind = "Error" THEN map
    ELSE LET r == try_from(event.pod)
         IN  IF ~IsSome(r) THEN map
             ELSE IF event.kind = "Added" THEN add(map, Unwrap(r))
             ELSE IF event.kind = "Modified" THEN modify(map, Unwrap(r))
             ELSE Remove(map, Key(Unwrap(r).name, Unwrap(r).namespace))

\* the listing of K8sMiddleware::new (middleware.rs:74-95): the map built
\* from the pods of the list, in their order (an empty list for a failed one)
RECURSIVE list_pods(_, _)
list_pods(map, pods) ==
    IF pods = <<>> THEN map
    ELSE LET r == try_from(Head(pods))
         IN  list_pods(IF IsSome(r)
                         THEN Insert(map, Key(Unwrap(r).name,
                                              Unwrap(r).namespace), Unwrap(r))
                       ELSE map,
                       Tail(pods))

\* new_line.labels(..).annotations(..) (middleware.rs:195-197)
enrich(line, pod_meta_data) ==
    [line EXCEPT !.labels = Some(pod_meta_data.labels),
                 !.annotations = Some(pod_meta_data.annotations)]

\* a body of the loop that keeps the first candidate
process_line_first(map, candidate, line) ==
    IF IsSome(candidate) THEN candidate
    ELSE IF ~IsSome(line.file) THEN candidate
    ELSE LET c == parse_container_path(Unwrap(line.file))
         IN  IF ~IsSome(c) THEN candidate
             ELSE IF Key(Unwrap(c)[1], Unwrap(c)[2]) \notin DOMAIN map
               THEN candidate
             ELSE Some(enrich(line, map[Key(Unwrap(c)[1], Unwrap(c)[2])]))

\* the body of the loop of process (middleware.rs:188-202) for one line:
\* container_line after it
process_line(map, candidate, line) ==
    IF ~IsSome(line.file) THEN candidate
    ELSE LET c == parse_container_path(Unwrap(line.file))
         IN  IF ~IsSome(c) THEN candidate
             ELSE IF Key(Unwrap(c)[1], Unwrap(c)[2]) \notin DOMAIN map
               THEN candidate
             ELSE Some(enrich(line, map[Key(Unwrap(c)[1], Unwrap(c)[2])]))

\* a return that gives back only the lines that have an origin file
process_return_filtered(candidate, batch) ==
    IF IsSome(candidate) THEN <<Unwrap(candidate)>>
    ELSE SelectSeq(batch, LAMBDA l : IsSome(l.file))

\* the end of process (middleware.rs:204-208): the batch it returns
process_return(candidate, batch) ==
    IF IsSome(candidate) THEN <<Unwrap(candidate)>> ELSE batch

(***************************************************************************)
(* k8s: the pods, events, files and batches of the model.                  *)
(***************************************************************************)
Web == <<"w", "e", "b">>

Db == <<"d", "b">>

Dev == <<"d", "e", "v">>

Ops == <<"o", "p", "s">>

LabelsWeb == {<<"app", "web">>}

AnnotationsWeb == {<<"owner", "team">>}

PodObject(name, namespace, labels, annotations) ==
    [metadata |-> Some([name |-> name, namespace |-> namespace,
                        labels |-> labels, annotations |-> annotations])]

\* pods that convert: a name, a namespace, labels and annotations or not
GoodPods ==
    {PodObject(Some(n), Some(Dev), l, a) :
        n \in {Web, Db}, l \in {None, Some(LabelsWeb)},
        a \in {None, Some(AnnotationsWeb)}}

\* pods that do not convert: no metadata, no name, no namespace
BadPods ==
    {[metadata |-> None],
     PodObject(None, Some(Dev), None, None),
     PodObject(Some(Web), None, Some(LabelsWeb), None)}

Pods == GoodPods \cup BadPods

\* WatchEvent<Pod>
Events ==
    {[kind |-> k, pod |-> p] : k \in {"Added", "Modified", "Deleted"}, p \in Pods}
        \cup {[kind |-> "Error", pod |-> [metadata |-> None]]}

\* the results of the initial list: it fails (no pods), or it gives pods
Listings ==
    {<<>>}
        \cup {<<p>> : p \in {PodObject(Some(Web), Some(Dev), Some(LabelsWeb), None),
                             PodObject(Some(Db), Some(Dev), None, Some(AnnotationsWeb)),
                             PodObject(None, Some(Dev), None, None)}}
        \cup {<<PodObject(Some(Web), Some(Dev), None, None),
                PodObject(Some(Db), Some(Dev), Some(LabelsWeb), Some(AnnotationsWeb))>>,
              <<[metadata |-> None],
                PodObject(Some(Db), Some(Dev), Some(LabelsWeb), None)>>}

RECURSIVE Rep(_, _)
Rep(c, n) == IF n = 0 THEN <<>> ELSE <<c>> \o Rep(c, n - 1)

\* the log file of a container "c" of a pod
ContainerLog(name, namespace) ==
    ContainersDir \o name \o <<"_">> \o namespace \o <<"_", "c", "-">>
        \o Rep("0", 32) \o Rep("f", 32) \o <<".", "l", "o", "g">>

\* origin files of lines: none, a journald hostname, container logs of the
\* pods Web and Db of Dev and of a pod of Ops
Files ==
    {None, Some(<<"h", "o", "s", "t">>),
     Some(ContainerLog(Web, Dev)), Some(ContainerLog(Db, Dev)),
     Some(ContainerLog(Web, Ops))}

\* the i-th line of a batch: its text tells the lines of a batch apart
BatchLine(i, file) ==
    [line |-> <<"line", i>>, file |-> file, labels |-> None, annotations |-> None]

Batches ==
    {<<>>} \cup {<<BatchLine(1, f)>> : f \in Files}
           \cup {<<BatchLine(1, f), BatchLine(2, g)>> : f \in Files, g \in Files}

(***************************************************************************)
(* State.                                                                  *)
(***************************************************************************)
VARIABLES
    \* JournaldStream (lib.rs:52-57)
    path,        \* the JournalPath of the stream
    thread,      \* Option<JoinHandle>: the generation of the worker it joins
    receiver,    \* Option<Receiver>: the generation of the channel it reads
    waker,       \* shared_state.waker: Option<Waker>, the generation of the
                 \* worker running when the handle was registered
    \* the channel of the current worker
    queue,       \* the lines buffered in the channel
    connected,   \* the sending half is alive
    \* the worker thread
    gen,         \* the number of workers spawned so far
    wpc,         \* where the worker thread is
    wpath,       \* the path the worker was given
    cursor,      \* the position of the worker's reader in the journal
    wline,       \* the line the worker is sending
    wfail,       \* why the worker stopped
    \* the journal and its reader (the environment)
    journal,     \* the records written so far
    jevent,      \* a change of the journal the reader's wait has not consumed
    faults,      \* the faults injected so far
    \* the consumer task
    cpc,         \* where the consumer is (in poll_next, suspended, in drop)
    notified,    \* the task's waker was invoked since the task last ran
    lastPoll,    \* what the last poll_next returned
    \* history of the current worker
    accepted,    \* the lines its formatter accepted, in order
    yielded,     \* the lines poll_next yielded from its channel, in order
    \* K8sMiddleware (middleware.rs:53-57)
    metadata,    \* the pod metadata map: key -> PodMetadata
    \* history of the watch
    listing,     \* the pods the initial list returned
    hist,        \* the events with a name and a namespace applied so far
    \* a call of process
    ppc,         \* "scan" in the loop over the lines, "returned" after it
    lines,       \* the batch passed to process
    pidx,        \* the lines of the batch scanned so far
    container_line,  \* Option<LineBuilder>: the candidate
    result,      \* the batch the call returned (empty until it returns)
    found,       \* for each line scanned: the metadata the map held for the
                 \* pod of its origin file when the line was scanned, if any
    recording,   \* the history of the watch is kept
    \* K8sMiddleware::run (middleware.rs:164-184)
    runtime,     \* Mutex<Option<Runtime>>: the runtime, until a run takes it
    informer,    \* Option: the invocation of run that holds the informer lock
    rpc,         \* where each invocation of run is
    feed,        \* the items the stream of the last poll has yet to give
    polled,      \* how the last informer.poll() ended
    mlock,       \* who holds the lock on the metadata map
    delivered,   \* the items of the feed the last successful poll returned
    applied,     \* the events of that feed handed to handle_pod so far
    \* a call of parse_container_path
    in_path,     \* the path passed
    out_captures,  \* Option<Option<(name, namespace)>>: what the call returned
    \* a call of process_next_record on a record the reader gave
    in_record,   \* Option: the record
    in_timestamp,  \* the timestamp of the record, formatted
    out_status   \* Option<RecordStatus>: what the call returned

jvars == <<path, thread, receiver, waker, queue, connected, gen, wpc, wpath,
           cursor, wline, wfail, journal, jevent, faults, cpc, notified,
           lastPoll, accepted, yielded>>

kvars == <<metadata, listing, hist, ppc, lines, pidx, container_line, result,
           found, recording>>

rvars == <<runtime, informer, rpc, feed, polled, mlock, delivered, applied>>

fvars == <<in_path, out_captures, in_record, in_timestamp, out_status>>

xvars == <<rvars, fvars>>

vars == <<jvars, kvars, xvars>>

(***************************************************************************)
(* JournaldStream::new (lib.rs:60-72): the fields, then spawn_thread.      *)
(***************************************************************************)
JInit ==
    /\ path \in JournalPaths
    /\ thread = Some(1)
    /\ receiver = Some(1)
    /\ waker = None
    /\ queue = <<>>
    /\ connected = TRUE
    /\ gen = 1
    /\ wpc = "open"
    /\ wpath = path
    /\ cursor = 0
    /\ wline = None
    /\ wfail = "none"
    /\ journal \in {<<>>} \cup {<<r>> : r \in StreamRecords}
    /\ jevent = FALSE
    /\ faults = 0
    /\ cpc = "idle"
    /\ notified = FALSE
    /\ lastPoll = "none"
    /\ accepted = <<>>
    /\ yielded = <<>>

(***************************************************************************)
(* The environment: journald writes a record; the reader's inotify watch   *)
(* has a change to report.                                                 *)
(***************************************************************************)
JournalAppend ==
    /\ Len(journal) < MaxRecords
    /\ \E r \in StreamRecords : journal' = Append(journal, r)
    /\ jevent' = TRUE
    /\ UNCHANGED kvars
    /\ UNCHANGED xvars
    /\ UNCHANGED <<path, thread, receiver, waker, queue, connected, gen, wpc,
                   wpath, cursor, wline, wfail, faults, cpc, notified,
                   lastPoll, accepted, yielded>>

(***************************************************************************)
(* The worker thread (the closure of spawn_thread, lib.rs:80-120).         *)
(***************************************************************************)
WorkerFinished == wpc \in {"done", "panicked"}

\* call_waker (lib.rs:83-95): take the waker out of the shared state and
\* wake it; gives <<the waker left, the task is notified>>
call_waker(w, n) == IF IsSome(w) THEN <<None, TRUE>> ELSE <<w, n>>

\* a send that puts the line in front of the queued ones
send_front(q, line) == <<line>> \o q

\* sender.send(line) on a channel holding q: the queue after the send
send(q, line) == Append(q, line)

\* a send that never waits for room
send_ready_unbounded(q) == TRUE

\* send returns only when the channel has room
send_ready(q) == Len(q) < ChannelBound

\* JournaldSource::new (lib.rs:175-192): open the journal, seek to its tail
WorkerOpen ==
    /\ wpc = "open"
    /\ cursor' = Len(journal)
    /\ jevent' = FALSE
    /\ wpc' = "next"
    /\ UNCHANGED kvars
    /\ UNCHANGED xvars
    /\ UNCHANGED <<path, thread, receiver, waker, queue, connected, gen,
                   wpath, wline, wfail, journal, faults, cpc, notified,
                   lastPoll, accepted, yielded>>

\* the open or the seek fails: expect() panics in the worker thread, the
\* closure unwinds and drops the sender; call_waker is not reached
WorkerOpenFails ==
    /\ wpc = "open"
    /\ faults < MaxFaults
    /\ faults' = faults + 1
    /\ wpc' = "panicked"
    /\ wfail' = "open"
    /\ connected' = FALSE
    /\ UNCHANGED kvars
    /\ UNCHANGED xvars
    /\ UNCHANGED <<path, thread, receiver, waker, queue, gen, wpath, cursor,
                   wline, journal, jevent, cpc, notified, lastPoll, accepted,
                   yielded>>

\* loop head (lib.rs:98): process_next_record
WorkerNext ==
    /\ wpc = "next"
    /\ LET status == process_next_record(journal, cursor)
       IN  /\ cursor' = IF status = NoLines THEN cursor ELSE cursor + 1
           /\ IF status.tag = "Line"
                THEN /\ wline' = Some(status.line)
                     /\ accepted' = Append(accepted, status.line)
                     /\ wpc' = "send"
                ELSE /\ wpc' = "wait"
                     /\ UNCHANGED <<wline, accepted>>
    /\ UNCHANGED kvars
    /\ UNCHANGED xvars
    /\ UNCHANGED <<path, thread, receiver, waker, queue, connected, gen,
                   wpath, wfail, journal, jevent, faults, cpc, notified,
                   lastPoll, yielded>>

\* next_entry fails (lib.rs:198): panic, as for the open
WorkerNextFails ==
    /\ wpc = "next"
    /\ faults < MaxFaults
    /\ faults' = faults + 1
    /\ wpc' = "panicked"
    /\ wfail' = "read"
    /\ connected' = FALSE
    /\ UNCHANGED kvars
    /\ UNCHANGED xvars
    /\ UNCHANGED <<path, thread, receiver, waker, queue, gen, wpath, cursor,
                   wline, journal, jevent, cpc, notified, lastPoll, accepted,
                   yielded>>

\* sender.send(line) (lib.rs:99-102): an error when the receiver is gone,
\* else the line is queued once there is room
WorkerSend ==
    /\ wpc = "send"
    /\ IF ~IsSome(receiver)
         THEN /\ wpc' = "drop_sender"
              /\ wfail' = "send"
              /\ UNCHANGED queue
         ELSE /\ send_ready(queue)
              /\ queue' = send(queue, Unwrap(wline))
              /\ wpc' = "wake"
              /\ UNCHANGED wfail
    /\ wline' = None
    /\ UNCHANGED kvars
    /\ UNCHANGED xvars
    /\ UNCHANGED <<path, thread, receiver, waker, connected, gen, wpath,
                   cursor, journal, jevent, faults, cpc, notified, lastPoll,
                   accepted, yielded>>

\* call_waker() after a send (lib.rs:104)
WorkerCallWaker ==
    /\ wpc = "wake"
    /\ waker' = call_waker(waker, notified)[1]
    /\ notified' = call_waker(waker, notified)[2]
    /\ wpc' = "next"
    /\ UNCHANGED kvars
    /\ UNCHANGED xvars
    /\ UNCHANGED <<path, thread, receiver, queue, connected, gen, wpath,
                   cursor, wline, wfail, journal, jevent, faults, cpc,
                   lastPoll, accepted, yielded>>

\* journal.reader.wait(None) returns (lib.rs:106-112): the journal changed
WorkerWait ==
    /\ wpc = "wait"
    /\ jevent
    /\ jevent' = FALSE
    /\ wpc' = "next"
    /\ UNCHANGED kvars
    /\ UNCHANGED xvars
    /\ UNCHANGED <<path, thread, receiver, waker, queue, connected, gen,
                   wpath, cursor, wline, wfail, journal, faults, cpc,
                   notified, lastPoll, accepted, yielded>>

\* wait returns an error (lib.rs:107-110): break
WorkerWaitFails ==
    /\ wpc = "wait"
    /\ faults < MaxFaults
    /\ faults' = faults + 1
    /\ wpc' = "drop_sender"
    /\ wfail' = "wait"
    /\ UNCHANGED kvars
    /\ UNCHANGED xvars
    /\ UNCHANGED <<path, thread, receiver, waker, queue, connected, gen,
                   wpath, cursor, wline, journal, jevent, cpc, notified,
                   lastPoll, accepted, yielded>>

\* an end of the loop that leaves the sender alive
WorkerKeepSender ==
    /\ wpc = "drop_sender"
    /\ wpc' = "exit_wake"
    /\ UNCHANGED kvars
    /\ UNCHANGED xvars
    /\ UNCHANGED <<path, thread, receiver, waker, queue, connected, gen, wpath,
                   cursor, wline, wfail, journal, jevent, faults, cpc, notified,
                   lastPoll, accepted, yielded>>

\* drop(sender) (lib.rs:118)
WorkerDropSender ==
    /\ wpc = "drop_sender"
    /\ connected' = FALSE
    /\ wpc' = "exit_wake"
    /\ UNCHANGED kvars
    /\ UNCHANGED xvars
    /\ UNCHANGED <<path, thread, receiver, waker, queue, gen, wpath, cursor,
                   wline, wfail, journal, jevent, faults, cpc, notified,
                   lastPoll, accepted, yielded>>

\* call_waker() on the way out (lib.rs:119), then the thread ends
WorkerExitWaker ==
    /\ wpc = "exit_wake"
    /\ waker' = call_waker(waker, notified)[1]
    /\ notified' = call_waker(waker, notified)[2]
    /\ wpc' = "done"
    /\ UNCHANGED kvars
    /\ UNCHANGED xvars
    /\ UNCHANGED <<path, thread, receiver, queue, connected, gen, wpath,
                   cursor, wline, wfail, journal, jevent, faults, cpc,
                   lastPoll, accepted, yielded>>

\* the steps the worker takes by itself
WorkerStep ==
    \/ WorkerOpen
    \/ WorkerNext
    \/ WorkerSend
    \/ WorkerCallWaker
    \/ WorkerWait
    \/ WorkerDropSender
    \/ WorkerExitWaker

\* the faults of the journal reader
WorkerFault ==
    \/ WorkerOpenFails
    \/ WorkerNextFails
    \/ WorkerWaitFails

(***************************************************************************)
(* The bridge: poll_next (lib.rs:138-161), drop (lib.rs:164-168).          *)
(***************************************************************************)
\* a try_recv that takes a disconnected empty channel for an empty one
try_recv_never_disconnected(q, conn) == IF q # <<>> THEN "Ok" ELSE "Empty"

\* a try_recv that reports a dropped sender before the lines still buffered
try_recv_disconnected_first(q, conn) ==
    IF ~conn THEN "Disconnected" ELSE IF q # <<>> THEN "Ok" ELSE "Empty"

\* receiver.try_recv() on a channel holding q
try_recv(q, conn) ==
    IF q # <<>> THEN "Ok" ELSE IF conn THEN "Empty" ELSE "Disconnected"

\* the line try_recv takes
recv_line(q) == Head(q)

\* the first part of poll_next, up to the outcome of try_recv
PollTryRecv ==
    /\ cpc = "idle"
    /\ IF ~IsSome(receiver)
         THEN /\ lastPoll' = "eos"
              /\ UNCHANGED <<cpc, queue, yielded>>
         ELSE LET r == try_recv(queue, connected)
              IN  IF r = "Ok"
                    THEN /\ yielded' = Append(yielded, recv_line(queue))
                         /\ queue' = Tail(queue)
                         /\ lastPoll' = "ready"
                         /\ UNCHANGED cpc
                    ELSE /\ cpc' = IF r = "Disconnected" THEN "join"
                                   ELSE "register"
                         /\ UNCHANGED <<queue, yielded, lastPoll>>
    /\ UNCHANGED kvars
    /\ UNCHANGED xvars
    /\ UNCHANGED <<path, thread, receiver, waker, connected, gen, wpc, wpath,
                   cursor, wline, wfail, journal, jevent, faults, notified,
                   accepted>>

\* a restart that joins the worker and leaves the stream without a receiver
PollRestartNoReceiver ==
    /\ cpc = "join"
    /\ IsSome(thread) => WorkerFinished
    /\ thread' = None
    /\ receiver' = None
    /\ cpc' = "idle"
    /\ UNCHANGED kvars
    /\ UNCHANGED xvars
    /\ UNCHANGED <<path, waker, queue, connected, gen, wpc, wpath, cursor,
                   wline, wfail, journal, jevent, faults, notified, lastPoll,
                   accepted, yielded>>

\* a shared state made anew for the worker: no waker in it
new_shared_state(w) == None

\* self.shared_state.clone() (lib.rs:78): the Arc is cloned, the worker gets
\* the shared state of the stream with the waker it holds
clone_shared_state(w) == w

\* Disconnected (lib.rs:146-150): drop_thread joins the worker, spawn_thread
\* makes a channel and a worker on a clone of the same shared state
PollRestart ==
    /\ cpc = "join"
    /\ IsSome(thread) => WorkerFinished
    /\ gen' = gen + 1
    /\ thread' = Some(gen + 1)
    /\ receiver' = Some(gen + 1)
    /\ queue' = <<>>
    /\ connected' = TRUE
    /\ wpc' = "open"
    /\ wpath' = path
    /\ wline' = None
    /\ wfail' = "none"
    /\ accepted' = <<>>
    /\ yielded' = <<>>
    /\ cpc' = "register"
    /\ waker' = clone_shared_state(waker)
    /\ UNCHANGED kvars
    /\ UNCHANGED xvars
    /\ UNCHANGED <<path, cursor, journal, jevent, faults, notified, lastPoll>>

\* the end of poll_next (lib.rs:158-160): store the waker, Pending
PollRegister ==
    /\ cpc = "register"
    /\ waker' = Some(gen)
    /\ lastPoll' = "pending"
    /\ cpc' = "suspended"
    /\ UNCHANGED kvars
    /\ UNCHANGED xvars
    /\ UNCHANGED <<path, thread, receiver, queue, connected, gen, wpc, wpath,
                   cursor, wline, wfail, journal, jevent, faults, notified,
                   accepted, yielded>>

\* the executor runs the task again once its waker was invoked
TaskWake ==
    /\ cpc = "suspended"
    /\ notified
    /\ notified' = FALSE
    /\ cpc' = "idle"
    /\ UNCHANGED kvars
    /\ UNCHANGED xvars
    /\ UNCHANGED <<path, thread, receiver, waker, queue, connected, gen, wpc,
                   wpath, cursor, wline, wfail, journal, jevent, faults,
                   lastPoll, accepted, yielded>>

\* the stream is dropped between two polls: Drop::drop starts drop_thread
DropStream ==
    /\ cpc \in {"idle", "suspended"}
    /\ cpc' = "drop_join"
    /\ UNCHANGED kvars
    /\ UNCHANGED xvars
    /\ UNCHANGED <<path, thread, receiver, waker, queue, connected, gen, wpc,
                   wpath, cursor, wline, wfail, journal, jevent, faults,
                   notified, lastPoll, accepted, yielded>>

\* drop_thread (lib.rs:126-132): thread.join() returns once the worker has
\* ended; the fields, the receiver among them, are dropped after that
DropJoin ==
    /\ cpc = "drop_join"
    /\ IsSome(thread) => WorkerFinished
    /\ thread' = None
    /\ receiver' = None
    /\ cpc' = "dropped"
    /\ UNCHANGED kvars
    /\ UNCHANGED xvars
    /\ UNCHANGED <<path, waker, queue, connected, gen, wpc, wpath, cursor,
                   wline, wfail, journal, jevent, faults, notified, lastPoll,
                   accepted, yielded>>

BridgeStep ==
    \/ PollTryRecv
    \/ PollRestart
    \/ PollRegister
    \/ TaskWake
    \/ DropJoin

EmptyMetadata == [k \in {} |-> None]

\* the middleware is not in use
KIdle ==
    /\ metadata = EmptyMetadata
    /\ listing = <<>>
    /\ hist = <<>>
    /\ ppc = "returned"
    /\ lines = <<>>
    /\ pidx = 0
    /\ container_line = None
    /\ result = <<>>
    /\ found = <<>>
    /\ recording = FALSE

\* run was not invoked
RIdle ==
    /\ runtime = Some("runtime")
    /\ informer = None
    /\ rpc = [i \in {1, 2} |-> "idle"]
    /\ feed = <<>>
    /\ polled = "none"
    /\ mlock = "free"
    /\ delivered = <<>>
    /\ applied = <<>>

\* no call of parse_container_path or of process_next_record
FIdle ==
    /\ in_path = <<>>
    /\ out_captures = None
    /\ in_record = None
    /\ in_timestamp = ""
    /\ out_status = None

Next ==
    \/ JournalAppend
    \/ WorkerStep
    \/ WorkerFault
    \/ BridgeStep
    \/ DropStream

\* the stream after new(), the middleware not in use
Init == JInit /\ KIdle /\ RIdle /\ FIdle

Spec == Init /\ [][Next]_vars

(***************************************************************************)
(* journald: the claims.                                                   *)
(***************************************************************************)
\* the worker cannot take a step by itself: it has ended, or it is blocked
\* in reader.wait on a journal without a change, or in send on a full queue
WorkerBlocked ==
    \/ WorkerFinished
    \/ wpc = "wait" /\ ~jevent
    \/ wpc = "send" /\ IsSome(receiver) /\ ~send_ready(queue)

IsPrefix(s, t) == Len(s) <= Len(t) /\ SubSeq(t, 1, Len(s)) = s

\* C1: a consumer suspended by a Pending poll is woken for every line the
\* worker enqueues: in no state is the consumer suspended, not woken, with a
\* line in the queue of a live worker, while that worker is blocked (in wait
\* on a quiet journal, or in send) and so will call no waker.
C1_SuspendedConsumerIsWoken ==
    (cpc = "suspended" /\ queue # <<>> /\ connected)
        => (notified \/ ~WorkerBlocked)

\* C2 as stated: the first poll_next after the sending half is dropped takes
\* the Disconnected branch (joins the worker and spawns a replacement).
C2_NextPollObservesDisconnection ==
    [][(PollTryRecv /\ ~connected) => cpc' = "join"]_vars

\* C2 amended: once the sending half is dropped, the first poll_next that finds
\* the queue empty takes the Disconnected branch; that branch joins the ended
\* worker, spawns a replacement on the same path with a connected channel and
\* goes on to return Pending; no poll returns end-of-stream.
C2_EmptyPollRestartsWorker ==
    [][/\ (PollTryRecv /\ ~connected /\ queue = <<>>) => cpc' = "join"
       /\ (cpc = "join" /\ cpc' # "join") =>
              /\ WorkerFinished
              /\ gen' = gen + 1 /\ thread' = Some(gen') /\ receiver' = Some(gen')
              /\ wpc' = "open" /\ wpath' = path /\ path' = path
              /\ connected' /\ queue' = <<>>
              /\ cpc' = "register"
       /\ (cpc = "register" /\ cpc' # "register") =>
              (cpc' = "suspended" /\ lastPoll' = "pending")
       /\ lastPoll' # "eos"]_vars

\* C2 witness: a replacement worker runs and the poll that spawned it
\* returned Pending
C2_Witness == gen > 1 /\ cpc = "suspended" /\ lastPoll = "pending"

\* C3: within one worker's lifetime the lines poll_next yielded are a prefix
\* of the lines the formatter accepted, in the order the reader gave them.
C3_YieldedIsPrefixOfAccepted == IsPrefix(yielded, accepted)

\* C3 witness: two lines of one worker were yielded
C3_Witness == Len(yielded) >= 2

\* the accepted lines of the current worker that are still on their way
InFlight == queue \o (IF wpc = "send" THEN wline ELSE <<>>)

\* C4: the queue never holds more than its capacity; a worker sending into a
\* full queue stays in send with its line until the queue has room again; and
\* every accepted line is yielded, queued or still held by the sending worker.
C4_BoundedQueueBlocksWorker ==
    [][/\ Len(queue') <= ChannelBound
       /\ (wpc = "send" /\ Len(queue) = ChannelBound /\ Len(queue') = ChannelBound)
              => (wpc' = "send" /\ wline' = wline)
       /\ accepted' = yielded' \o InFlight']_vars

\* C4 witness: the worker holds an accepted line while the queue is full
C4_Witness == wpc = "send" /\ Len(queue) = ChannelBound /\ IsSome(wline)

\* C5: when the bridge is dropped the join of drop_thread returns in every
\* state of the worker: while teardown waits in join, the worker is never left
\* blocked in send on a full queue (the bridge receives no more, so that
\* worker could not end and the join could not return).
C5_TeardownJoinReturns ==
    (cpc = "drop_join") => ~(wpc = "send" /\ ~send_ready(queue))

\* C6: a failure to open the journal (or to seek to its tail) is a startup
\* fault of the construction: no worker thread exists for the bridge and no
\* replacement worker is spawned for it.
C6_OpenFailureCreatesNoWorker ==
    (wfail = "open") => (~IsSome(thread) /\ gen = 1)

(***************************************************************************)
(* K8sMiddleware: the map after new(), the watch events, process.          *)
(***************************************************************************)
\* the stream is not in use: it was dropped
JIdle ==
    /\ path = "Directory"
    /\ thread = None
    /\ receiver = None
    /\ waker = None
    /\ queue = <<>>
    /\ connected = FALSE
    /\ gen = 1
    /\ wpc = "done"
    /\ wpath = "Directory"
    /\ cursor = 0
    /\ wline = None
    /\ wfail = "none"
    /\ journal = <<>>
    /\ jevent = FALSE
    /\ faults = 0
    /\ cpc = "dropped"
    /\ notified = FALSE
    /\ lastPoll = "none"
    /\ accepted = <<>>
    /\ yielded = <<>>

\* K8sMiddleware::new (middleware.rs:60-106): the map holds the pods of the
\* initial list that convert
KInit ==
    /\ listing \in Listings
    /\ metadata = list_pods(EmptyMetadata, listing)
    /\ hist = <<>>
    /\ ppc = "returned"
    /\ lines = <<>>
    /\ pidx = 0
    /\ container_line = None
    /\ result = <<>>
    /\ found = <<>>

\* the pod of the event has a name and a namespace
HasIdentity(pod) ==
    /\ IsSome(pod.metadata)
    /\ IsSome(Unwrap(pod.metadata).name)
    /\ IsSome(Unwrap(pod.metadata).namespace)

WellFormed(event) == event.kind # "Error" /\ HasIdentity(event.pod)

\* the watch loop hands one event of the feed to handle_pod
\* (middleware.rs:179-181)
HandlePod(event) ==
    /\ (recording /\ WellFormed(event)) => Len(hist) < MaxEvents
    /\ metadata' = handle_pod(metadata, event)
    /\ hist' = IF recording /\ WellFormed(event) THEN Append(hist, event)
               ELSE hist
    /\ UNCHANGED jvars
    /\ UNCHANGED xvars
    /\ UNCHANGED <<listing, ppc, lines, pidx, container_line, result, found,
                   recording>>

\* what the map holds for the pod the origin file of a line names, if the
\* file is a container log and the map has that pod
Correlated(map, line) ==
    IF ~IsSome(line.file) THEN None
    ELSE IF ~IsSome(parse_container_path(Unwrap(line.file))) THEN None
    ELSE LET c == Unwrap(parse_container_path(Unwrap(line.file)))
         IN  IF Key(c[1], c[2]) \in DOMAIN map
               THEN Some(map[Key(c[1], c[2])])
             ELSE None

\* process is called with a batch of B (middleware.rs:186-187)
ProcessCallFrom(B) ==
    /\ ppc = "returned"
    /\ lines' \in B
    /\ ppc' = "scan"
    /\ pidx' = 0
    /\ container_line' = None
    /\ result' = <<>>
    /\ found' = <<>>
    /\ UNCHANGED jvars
    /\ UNCHANGED xvars
    /\ UNCHANGED <<metadata, listing, hist, recording>>

ProcessCall == ProcessCallFrom(Batches)

\* one turn of the loop over the lines (middleware.rs:188-202): the lock on
\* the map is taken for the lookup and held to the end of the turn
ProcessLine ==
    /\ ppc = "scan"
    /\ pidx < Len(lines)
    /\ container_line' = process_line(metadata, container_line, lines[pidx + 1])
    /\ found' = Append(found, Correlated(metadata, lines[pidx + 1]))
    /\ pidx' = pidx + 1
    /\ UNCHANGED jvars
    /\ UNCHANGED xvars
    /\ UNCHANGED <<metadata, listing, hist, ppc, lines, result, recording>>

\* the return of process (middleware.rs:204-208)
ProcessReturn ==
    /\ ppc = "scan"
    /\ pidx = Len(lines)
    /\ result' = process_return(container_line, lines)
    /\ ppc' = "returned"
    /\ UNCHANGED jvars
    /\ UNCHANGED xvars
    /\ UNCHANGED <<metadata, listing, hist, lines, pidx, container_line, found,
                   recording>>

\* the watch alone, with its history
NextCache == \E event \in Events : HandlePod(event)

\* the middleware after new(), the history of its watch kept
InitCache == JIdle /\ KInit /\ recording = TRUE /\ RIdle /\ FIdle

SpecCache == InitCache /\ [][NextCache]_vars

\* process running beside the watch
NextProcess ==
    \/ \E event \in Events : HandlePod(event)
    \/ ProcessCall
    \/ ProcessLine
    \/ ProcessReturn

\* the middleware after new()
InitProcess == JIdle /\ KInit /\ recording = FALSE /\ RIdle /\ FIdle

SpecProcess == InitProcess /\ [][NextProcess]_vars

(***************************************************************************)
(* k8s: the claims.                                                        *)
(***************************************************************************)
\* the lines of the batch whose pod the map held when they were scanned
Matching == {i \in 1..Len(found) : IsSome(found[i])}

LastMatching == CHOOSE i \in Matching : \A j \in Matching : j <= i

\* C7: when at least one line of the batch correlates to a pod of the map,
\* process returns exactly one line: the last such line of the batch, with
\* the labels and annotations the map held for its pod.
C7_LastMatchingLineReturned ==
    (ppc = "returned" /\ Matching # {}) =>
        result = <<[lines[LastMatching] EXCEPT
                       !.labels = Some(Unwrap(found[LastMatching]).labels),
                       !.annotations =
                           Some(Unwrap(found[LastMatching]).annotations)]>>

\* C7 witness: a batch of two lines of two pods of the map was processed,
\* and the map held different metadata for the two
C7_Witness ==
    /\ ppc = "returned"
    /\ Matching = {1, 2}
    /\ lines[1].file # lines[2].file
    /\ found[1] # found[2]

\* C8: when no line of the batch correlates to a pod of the map, process
\* returns the batch it was given, unchanged; and no step of process changes
\* the map.
C8_NoMatchReturnsBatch ==
    [][/\ (ppc' = "returned" /\ Matching' = {}) => result' = lines'
       /\ (ppc' # ppc \/ pidx' # pidx) => metadata' = metadata]_vars

\* C8 witness: a batch of two lines was returned as it came, one of them with
\* a container log of a pod the map did not hold
C8_Witness ==
    /\ ppc = "returned"
    /\ Len(lines) = 2
    /\ Matching = {}
    /\ result = lines
    /\ \E i \in 1..2 : /\ IsSome(lines[i].file)
                       /\ IsSome(parse_container_path(Unwrap(lines[i].file)))

\* the composite key of a pod that has a name and a namespace
PodKey(pod) ==
    Unwrap(Unwrap(pod.metadata).name) \o <<"_">>
        \o Unwrap(Unwrap(pod.metadata).namespace)

Last(s) == s[Len(s)]

\* C9: a Modify or a Delete event for a key the map does not hold leaves the
\* map as it is, and a Delete event applied right after the same Delete event
\* leaves the map as the first one left it.
C9_AbsentKeyEventsAreNoOps ==
    [][Len(hist') > Len(hist) =>
          /\ (Last(hist').kind \in {"Modified", "Deleted"}
                /\ PodKey(Last(hist').pod) \notin DOMAIN metadata)
                 => metadata' = metadata
          /\ (Last(hist').kind = "Deleted" /\ hist # <<>>
                /\ Last(hist) = Last(hist'))
                 => metadata' = metadata]_vars

\* C9 witness: the last event was a Modify for a key the map does not hold,
\* after a Delete of that key
C9_Witness ==
    /\ Len(hist) = 2
    /\ hist[1].kind = "Deleted"
    /\ hist[2].kind = "Modified"
    /\ PodKey(hist[1].pod) = PodKey(hist[2].pod)
    /\ PodKey(hist[2].pod) \notin DOMAIN metadata

\* the events of the history for a key, by their positions
EventsFor(k, kinds) ==
    {i \in 1..Len(hist) : hist[i].kind \in kinds /\ PodKey(hist[i].pod) = k}

\* the pods of the listing with a key, by their positions
ListedFor(k) ==
    {i \in 1..Len(listing) : HasIdentity(listing[i]) /\ PodKey(listing[i]) = k}

MaxOf(S) == CHOOSE i \in S : \A j \in S : j <= i

\* the key was listed or added, and not deleted since
Present(k) ==
    \/ ListedFor(k) # {} /\ EventsFor(k, {"Deleted"}) = {}
    \/ \E i \in EventsFor(k, {"Added"}) :
           \A j \in EventsFor(k, {"Deleted"}) : j < i

\* the pod object whose labels and annotations the entry of a present key
\* has: that of the last Add or Modify event for the key since it was last
\* inserted, or that of the listing
SourcePod(k) ==
    LET adds == EventsFor(k, {"Added"})
        since == IF adds = {} THEN 0 ELSE MaxOf(adds)
        upd == {i \in EventsFor(k, {"Added", "Modified"}) : i >= since}
    IN  IF upd = {} THEN listing[MaxOf(ListedFor(k))] ELSE hist[MaxOf(upd)].pod

MapOf(o) == IF IsSome(o) THEN Unwrap(o) ELSE {}

AllKeys == {PodKey(p) : p \in GoodPods}

\* C10: after the listing and the events of the history, the map holds a key
\* exactly when the pod was listed or added and not deleted since, with the
\* labels and annotations of the last Add or Modify event for the key since it
\* was last inserted (those of the listing without such an event).
C10_CacheMirrorsEvents ==
    /\ DOMAIN metadata \subseteq AllKeys
    /\ \A k \in AllKeys :
        /\ k \in DOMAIN metadata <=> Present(k)
        /\ k \in DOMAIN metadata =>
            /\ metadata[k].labels
                   = MapOf(Unwrap(SourcePod(k).metadata).labels)
            /\ metadata[k].annotations
                   = MapOf(Unwrap(SourcePod(k).metadata).annotations)

\* C10 witness: a listed pod was added again and then modified, each time
\* with other labels or annotations
C10_Witness ==
    /\ Len(hist) = 2
    /\ hist[1].kind = "Added"
    /\ hist[2].kind = "Modified"
    /\ PodKey(hist[1].pod) = PodKey(hist[2].pod)
    /\ ListedFor(PodKey(hist[1].pod)) # {}
    /\ hist[1].pod # hist[2].pod
    /\ hist[1].pod # listing[MaxOf(ListedFor(PodKey(hist[1].pod)))]
    /\ PodKey(hist[1].pod) \in DOMAIN metadata

(***************************************************************************)
(* K8sMiddleware::run (middleware.rs:164-184): the watch loop, and process *)
(* beside it with the lock on the map.                                     *)
(***************************************************************************)
\* the invocations of run on one instance
Runs == {1, 2}

\* the items of the stream a poll returns: Result<WatchEvent<Pod>>
Ok(event) == [tag |-> "Ok", event |-> event]

Err == [tag |-> "Err"]

FeedItems ==
    {Err,
     Ok([kind |-> "Error", pod |-> [metadata |-> None]]),
     Ok([kind |-> "Added", pod |-> PodObject(None, Some(Dev), None, None)]),
     Ok([kind |-> "Added",
         pod |-> PodObject(Some(Web), Some(Dev), Some(LabelsWeb), None)]),
     Ok([kind |-> "Modified",
         pod |-> PodObject(Some(Web), Some(Dev), None, Some(AnnotationsWeb))]),
     Ok([kind |-> "Deleted", pod |-> PodObject(Some(Web), Some(Dev), None, None)])}

\* the streams of a successful poll
Feeds == {<<>>} \cup {<<a>> : a \in FeedItems}
                \cup {<<a, b>> : a \in FeedItems, b \in FeedItems}

\* the batches passed to process while the watch runs
WatchedBatches ==
    {<<BatchLine(1, Some(ContainerLog(Web, Dev)))>>,
     <<BatchLine(1, Some(<<"h", "o", "s", "t">>)),
       BatchLine(2, Some(ContainerLog(Web, Dev)))>>,
     <<BatchLine(1, Some(ContainerLog(Web, Dev))),
       BatchLine(2, Some(ContainerLog(Db, Dev)))>>}

\* the results of the initial list before a run: it failed, or gave a pod
WatchedListings ==
    {<<>>, <<PodObject(Some(Db), Some(Dev), None, Some(AnnotationsWeb))>>}

\* an Option::take that leaves the value where it is
take_keeping(o) == <<o, o>>

\* Option::take: <<what is left, what is taken>>
take(o) == <<None, o>>

\* a release that leaves the lock with its holder
unlock_never(holder) == holder

\* the guard of a lock is dropped
unlock(holder) == "free"

\* handle_pod takes the lock on the map for this event: it is no Error event
\* and its pod converts (middleware.rs:110-154)
LocksMap(event) == event.kind # "Error" /\ IsSome(try_from(event.pod))

\* run is entered (middleware.rs:165): the runtime is taken, or expect panics
RunEnter(i) ==
    /\ rpc[i] = "idle"
    /\ runtime' = take(runtime)[1]
    /\ rpc' = [rpc EXCEPT ![i] = IF IsSome(take(runtime)[2]) THEN "lock"
                                 ELSE "panicked"]
    /\ UNCHANGED <<jvars, kvars, fvars>>
    /\ UNCHANGED <<informer, feed, polled, mlock, delivered, applied>>

\* self.informer.lock() (middleware.rs:166), held to the end of run
RunLockInformer(i) ==
    /\ rpc[i] = "lock"
    /\ informer = None
    /\ informer' = Some(i)
    /\ rpc' = [rpc EXCEPT ![i] = "poll"]
    /\ UNCHANGED <<jvars, kvars, fvars>>
    /\ UNCHANGED <<runtime, feed, polled, mlock, delivered, applied>>

\* informer.poll().await gives a stream of F (middleware.rs:170-171, 177)
RunPollOkFrom(i, F) ==
    /\ rpc[i] = "poll"
    /\ \E f \in F : feed' = f /\ delivered' = f
    /\ applied' = <<>>
    /\ polled' = "ok"
    /\ rpc' = [rpc EXCEPT ![i] = "next"]
    /\ UNCHANGED <<jvars, kvars, fvars>>
    /\ UNCHANGED <<runtime, informer, mlock>>

RunPollOk(i) == RunPollOkFrom(i, Feeds)

\* informer.poll().await fails (middleware.rs:172-175): continue
RunPollFails(i) ==
    /\ rpc[i] = "poll"
    /\ polled' = "err"
    /\ feed' = <<>>
    /\ delivered' = <<>>
    /\ applied' = <<>>
    /\ UNCHANGED <<jvars, kvars, fvars>>
    /\ UNCHANGED <<runtime, informer, rpc, mlock>>

\* while let Some(Ok(event)) = pods.next().await (middleware.rs:179-181):
\* the stream has ended or gives a failed item, and the loop is left for the
\* next poll; or it gives an event, and handle_pod is called with it
RunNext(i) ==
    /\ rpc[i] = "next"
    /\ IF feed = <<>> \/ Head(feed).tag = "Err"
         THEN /\ feed' = <<>>
              /\ rpc' = [rpc EXCEPT ![i] = "poll"]
              /\ UNCHANGED <<metadata, mlock, applied>>
         ELSE LET event == Head(feed).event
              IN  /\ feed' = Tail(feed)
                  /\ applied' = Append(applied, event)
                  /\ IF LocksMap(event)
                       THEN /\ mlock = "free"
                            /\ mlock' = "watch"
                            /\ metadata' = handle_pod(metadata, event)
                            /\ rpc' = [rpc EXCEPT ![i] = "handle"]
                       ELSE UNCHANGED <<metadata, mlock, rpc>>
    /\ UNCHANGED <<jvars, fvars>>
    /\ UNCHANGED <<listing, hist, ppc, lines, pidx, container_line, result,
                   found, recording>>
    /\ UNCHANGED <<runtime, informer, polled, delivered>>

\* the guard of self.metadata.lock() is dropped at the end of the statement
\* of handle_pod that took it (middleware.rs:118-121, 132-139, 149-153)
RunUnlock(i) ==
    /\ rpc[i] = "handle"
    /\ mlock' = unlock(mlock)
    /\ rpc' = [rpc EXCEPT ![i] = "next"]
    /\ UNCHANGED <<jvars, kvars, fvars>>
    /\ UNCHANGED <<runtime, informer, feed, polled, delivered, applied>>

\* the line has an origin file that is a container log (middleware.rs:189-190)
LooksUp(line) ==
    IsSome(line.file) /\ IsSome(parse_container_path(Unwrap(line.file)))

\* a turn of the loop of process for a line that is not looked up
ProcessSkip ==
    /\ ppc = "scan"
    /\ pidx < Len(lines)
    /\ ~LooksUp(lines[pidx + 1])
    /\ found' = Append(found, None)
    /\ pidx' = pidx + 1
    /\ UNCHANGED <<jvars, xvars>>
    /\ UNCHANGED <<metadata, listing, hist, ppc, lines, container_line, result,
                   recording>>

\* self.metadata.lock().get(..) and the body of the if let
\* (middleware.rs:191-199), under the lock
ProcessLookup ==
    /\ ppc = "scan"
    /\ pidx < Len(lines)
    /\ LooksUp(lines[pidx + 1])
    /\ mlock = "free"
    /\ mlock' = "process"
    /\ container_line' = process_line(metadata, container_line, lines[pidx + 1])
    /\ found' = Append(found, Correlated(metadata, lines[pidx + 1]))
    /\ pidx' = pidx + 1
    /\ ppc' = "locked"
    /\ UNCHANGED <<jvars, fvars>>
    /\ UNCHANGED <<metadata, listing, hist, lines, result, recording>>
    /\ UNCHANGED <<runtime, informer, rpc, feed, polled, delivered, applied>>

\* the guard is dropped at the end of the if let (middleware.rs:199)
ProcessUnlock ==
    /\ ppc = "locked"
    /\ mlock' = unlock(mlock)
    /\ ppc' = "scan"
    /\ UNCHANGED <<jvars, fvars>>
    /\ UNCHANGED <<metadata, listing, hist, lines, pidx, container_line, result,
                   found, recording>>
    /\ UNCHANGED <<runtime, informer, rpc, feed, polled, delivered, applied>>

RunStep(i) ==
    \/ RunEnter(i)
    \/ RunLockInformer(i)
    \/ RunPollOk(i)
    \/ RunPollFails(i)
    \/ RunNext(i)
    \/ RunUnlock(i)

ProcessStep ==
    \/ ProcessCallFrom(WatchedBatches)
    \/ ProcessSkip
    \/ ProcessLookup
    \/ ProcessUnlock
    \/ ProcessReturn

NextRun ==
    \/ \E i \in Runs : RunStep(i)
    \/ ProcessStep

\* the middleware after new() (middleware.rs:60-106): the runtime is there,
\* the map holds the pods listed, run was not invoked
InitRun ==
    /\ JIdle
    /\ KInit
    /\ listing \in WatchedListings
    /\ recording = FALSE
    /\ RIdle
    /\ FIdle

SpecRun == InitRun /\ [][NextRun]_vars

(***************************************************************************)
(* run: the claims.                                                        *)
(***************************************************************************)
\* the invocation is in the watch loop (middleware.rs:169-182)
InLoop(i) == rpc[i] \in {"poll", "next", "handle"}

\* C11: an invocation of run that is in the watch loop stays in it after
\* every step, whether a poll succeeds or fails, and can always go on (by a
\* step of its own, or once process has released the map); an invocation that
\* enters run after another one has entered panics on the taken runtime and
\* never enters the loop; at most one invocation is in the loop.
C11_RunLoopsForeverOnce ==
    [][/\ \A i \in Runs : InLoop(i) => InLoop(i)'
       /\ \A i \in Runs : InLoop(i) => ENABLED (RunStep(i) \/ ProcessUnlock)
       /\ \A i \in Runs :
              (rpc[i] = "idle" /\ rpc'[i] # "idle"
                 /\ \E j \in Runs \ {i} : rpc[j] # "idle")
                  => rpc'[i] = "panicked"
       /\ \A i \in Runs : rpc[i] = "panicked" => rpc'[i] = "panicked"
       /\ Cardinality({i \in Runs : InLoop(i)'}) <= 1]_vars

\* C11 witness: one invocation is back at the poll after a failed poll, with
\* events of an earlier poll applied, and the other invocation has panicked
C11_Witness ==
    \E i \in Runs, j \in Runs :
        /\ rpc[i] = "poll" /\ polled = "err"
        /\ rpc[j] = "panicked"
        /\ Key(Web, Dev) \in DOMAIN metadata

(***************************************************************************)
(* parse_container_path (middleware.rs:245-251) on paths.                  *)
(***************************************************************************)
\* a path put together from its parts
PathOf(dir, name, namespace, container, id, dot, ext) ==
    dir \o name \o <<"_">> \o namespace \o <<"_">> \o container \o <<"-">>
        \o id \o dot \o ext

\* directories: the one of the container logs, another one, and the one of
\* the container logs behind a prefix
PathDirs ==
    {ContainersDir,
     <<"/", "v", "a", "r", "/", "l", "o", "g", "/", "p", "o", "d", "s", "/">>,
     <<"/", "m", "n", "t">> \o ContainersDir}

\* names of alphanumerics, '-' and '.'
GoodNames == {Web, <<"W", "-", "1">>, <<"w", ".", "b">>}

\* no name, a name with another character, a name with a '_' (one more segment)
BadNames == {<<>>, <<"w", "!">>, <<"w", "_", "b">>}

\* ids of 64 hexadecimal characters
HexIds == {Rep("0", 32) \o Rep("f", 32), Rep("a", 63) \o <<"9">>}

\* 64 characters with one that is not hexadecimal, 63 and 65 hexadecimal
\* characters, no id
OtherIds ==
    {Rep("0", 63) \o <<"g">>, <<"z">> \o Rep("f", 63),
     Rep("0", 31) \o <<"F">> \o Rep("0", 32),
     Rep("0", 63), Rep("0", 65), <<>>}

LogExt == <<"l", "o", "g">>

\* the paths parse_container_path is called with
ParsePaths ==
    {PathOf(d, n, Dev, c, id, dot, ext) :
        d \in PathDirs, n \in GoodNames \cup BadNames,
        c \in {<<"c">>, <<"c", "-", "1">>},
        id \in HexIds \cup OtherIds,
        dot \in {<<".">>, <<"x">>, <<"\n">>, <<>>},
        ext \in {LogExt, <<"l", "o", "g", "s">>, <<"t", "x", "t">>}}
      \cup {ContainersDir \o n \o <<"_">> \o <<"c", "-">> \o id \o <<".">> \o LogExt :
               n \in GoodNames, id \in HexIds}
      \cup {<<>>, ContainersDir}

\* the call parse_container_path(&file_name) (middleware.rs:190)
ParseContainerPath ==
    /\ out_captures = None
    /\ out_captures' = Some(parse_container_path(in_path))
    /\ UNCHANGED <<jvars, kvars, rvars>>
    /\ UNCHANGED <<in_path, in_record, in_timestamp, out_status>>

NextParse == ParseContainerPath

\* a path, before parse_container_path is called with it
InitParse ==
    /\ JIdle
    /\ KIdle
    /\ RIdle
    /\ in_path \in ParsePaths
    /\ out_captures = None
    /\ in_record = None
    /\ in_timestamp = ""
    /\ out_status = None

SpecParse == InitParse /\ [][NextParse]_vars

\* the paths of the form
\*   /var/log/containers/<pod-name>_<namespace>_<container-name>-<id>.log
\* with names of alphanumerics, '-' and '.' and an id of 64 hexadecimal
\* characters, each with its pod name and namespace
HexFormPaths ==
    {<<PathOf(ContainersDir, n, Dev, c, id, <<".">>, LogExt), n, Dev>> :
        n \in GoodNames, c \in {<<"c">>, <<"c", "-", "1">>}, id \in HexIds}

\* C12: parse_container_path returns (pod-name, namespace) exactly for the
\* paths of the form with a 64-character hexadecimal id followed by ".log",
\* and no match for every other path.
C12_MatchesExactlyHexFormPaths ==
    IsSome(out_captures) =>
        /\ \A t \in HexFormPaths :
               t[1] = in_path => Unwrap(out_captures) = Some(<<t[2], t[3]>>)
        /\ (\A t \in HexFormPaths : t[1] # in_path)
               => Unwrap(out_captures) = None

(***************************************************************************)
(* process_next_record (lib.rs:194-238) on the records of a reader.        *)
(***************************************************************************)
\* values of the transport field: none, the six transports, another one
FormatTransports ==
    {None, Some(TRANSPORT_AUDIT), Some(TRANSPORT_DRIVER), Some(TRANSPORT_SYSLOG),
     Some(TRANSPORT_JOURNAL), Some(TRANSPORT_STDOUT), Some(TRANSPORT_KERNEL),
     Some("other")}

\* the records next_entry gives: every field is there or not
FormatRecords ==
    {[k \in RecordKeys |->
        CASE k = KEY_TRANSPORT -> t
          [] k = KEY_HOSTNAME -> h
          [] k = KEY_COMM -> c
          [] k = KEY_PID -> p
          [] k = KEY_MESSAGE -> m] :
        t \in FormatTransports, h \in {None, Some("host")},
        c \in {None, Some("sshd")}, p \in {None, Some("42")},
        m \in {None, Some("msg")}}

\* timestamps in the format "%b %d %H:%M:%S" (lib.rs:202-216)
FormatTimestamps == {"Nov 01 12:00:00", "Jan 31 23:59:59"}

\* the record read is dispatched on its transport (lib.rs:218-238)
FormatRecord ==
    /\ out_status = None
    /\ out_status' = Some(format_record(Unwrap(in_record), in_timestamp))
    /\ UNCHANGED <<jvars, kvars, rvars>>
    /\ UNCHANGED <<in_path, out_captures, in_record, in_timestamp>>

NextFormat == FormatRecord

\* a record and its timestamp, read and not yet formatted
InitFormat ==
    /\ JIdle
    /\ KIdle
    /\ RIdle
    /\ in_path = <<>>
    /\ out_captures = None
    /\ in_record \in {Some(r) : r \in FormatRecords}
    /\ in_timestamp \in FormatTimestamps
    /\ out_status = None

SpecFormat == InitFormat /\ [][NextFormat]_vars

\* the fields are all there
Has(r, keys) == \A k \in keys : IsSome(r[k])

\* the status is a line with this text and this origin file
IsLine(s, text, file) ==
    s.tag = "Line" /\ s.line.line = text /\ s.line.file = Some(file)

\* C13: the outcome of the formatter is determined by the transport:
\*   audit with hostname, pid, message:  "<ts> <host> audit[<pid>]: <msg>"
\*   driver, syslog, journal, stdout with hostname, command, pid, message:
\*                                       "<ts> <host> <comm>[<pid>]: <msg>"
\*   kernel with hostname, message:      "<ts> <host> kernel: <msg>"
\* each with the hostname as the origin file; everything else (no transport,
\* another transport, a required field missing) is a rejection.
C13_FormatDeterminedByTransport ==
    IsSome(out_status) =>
        LET r == Unwrap(in_record)
            s == Unwrap(out_status)
            ts == in_timestamp
            host == Unwrap(r[KEY_HOSTNAME])
            comm == Unwrap(r[KEY_COMM])
            pid == Unwrap(r[KEY_PID])
            msg == Unwrap(r[KEY_MESSAGE])
        IN  IF /\ r[KEY_TRANSPORT] = Some("audit")
               /\ Has(r, {KEY_HOSTNAME, KEY_PID, KEY_MESSAGE})
              THEN IsLine(s, <<ts, " ", host, " audit[", pid, "]: ", msg>>, host)
            ELSE IF /\ r[KEY_TRANSPORT] \in
                           {Some("driver"), Some("syslog"), Some("journal"),
                            Some("stdout")}
                    /\ Has(r, {KEY_HOSTNAME, KEY_COMM, KEY_PID, KEY_MESSAGE})
              THEN IsLine(s, <<ts, " ", host, " ", comm, "[", pid, "]: ", msg>>,
                          host)
            ELSE IF /\ r[KEY_TRANSPORT] = Some("kernel")
                    /\ Has(r, {KEY_HOSTNAME, KEY_MESSAGE})
              THEN IsLine(s, <<ts, " ", host, " kernel: ", msg>>, host)
            ELSE s = BadLine

\* C13 witness: a kernel record without command and pid was accepted
C13_Witness ==
    /\ IsSome(out_status)
    /\ Unwrap(out_status).tag = "Line"
    /\ Unwrap(in_record)[KEY_TRANSPORT] = Some(TRANSPORT_KERNEL)
    /\ ~IsSome(Unwrap(in_record)[KEY_COMM])
    /\ ~IsSome(Unwrap(in_record)[KEY_PID])

(***************************************************************************)
(* journald: the claims on the stops of the worker.                        *)
(***************************************************************************)
\* C14: whenever the worker stops on a failed send, on an error of the
\* reader's wait or on a fault of the reader while it reads the next record,
\* with the consumer's wake handle registered in the shared state, the step
\* that ends the worker takes that handle out of the shared state and invokes
\* it, so the suspended consumer polls again.
C14_StoppedWorkerWakesConsumer ==
    [][(/\ ~WorkerFinished /\ WorkerFinished'
        /\ wfail' \in {"send", "wait", "read"}
        /\ IsSome(waker))
          => (waker' = None /\ notified')]_vars

\* C15: the worker goes from reading a record to the reader's wait only when
\* the reader reported that no record is available; after a record the
\* formatter rejects it reads the next record without a wait.
C15_WaitsOnlyWhenNoRecord ==
    [][(wpc = "next" /\ wpc' = "wait")
          => process_next_record(journal, cursor) = NoLines]_vars

\* C16: when the worker loop has stopped, the sending half of the queue is
\* released before the exit call of call_waker: at that call and after it,
\* until the worker is replaced, the channel is disconnected and a receive on
\* it gives a buffered line or Disconnected, never Empty.
C16_SenderReleasedBeforeExitWake ==
    (wpc \in {"exit_wake", "done"}) =>
        (~connected /\ try_recv(queue, connected) # "Empty")

\* C16 witness: the first worker sent no line and ended on an error of wait;
\* the consumer, suspended by a Pending poll, was woken by the exit call of
\* call_waker (the only one so far) and its poll found the channel
\* disconnected
C16_Witness ==
    /\ gen = 1 /\ accepted = <<>>
    /\ wpc = "done" /\ wfail = "wait"
    /\ lastPoll = "pending" /\ cpc = "join"

(***************************************************************************)
(* run and process: the claims on the events of a feed and on the lock.    *)
(***************************************************************************)
\* the events of the items of a feed that hold one
RECURSIVE EventsOf(_)
EventsOf(items) ==
    IF items = <<>> THEN <<>>
    ELSE IF Head(items).tag = "Ok"
      THEN <<Head(items).event>> \o EventsOf(Tail(items))
    ELSE EventsOf(Tail(items))

\* the Add, Modify and Delete events among them whose pod converts
Mutations(events) == SelectSeq(events, LocksMap)

\* the watch loop is done with the feed of the last poll
FeedDone == polled = "ok" /\ \E i \in Runs : rpc[i] = "poll"

\* C17: an Error event, a pod that does not convert or a failed item in the
\* feed of a successful poll is skipped and the events after it are still
\* handled: when the loop is done with a feed, every Add, Modify and Delete
\* event of the feed was handed to handle_pod, in the order of the feed.
C17_FeedErrorsAreSkipped ==
    FeedDone => Mutations(applied) = Mutations(EventsOf(delivered))

\* every entry of the map is stored under name + "_" + namespace of its record
KeyedByIdentity(map) ==
    \A k \in DOMAIN map : k = map[k].name \o <<"_">> \o map[k].namespace

\* C18: a Modify event for a pod whose key is in the map replaces the labels
\* and annotations of that entry with those of the event and changes nothing
\* else: the keys of the map, the name and namespace of the entry and every
\* other entry stay as they are; and before and after every event each entry
\* is stored under name + "_" + namespace of its own record.
C18_ModifyReplacesOnlyLabelsAndAnnotations ==
    [][/\ (/\ Len(hist') > Len(hist)
           /\ Last(hist').kind = "Modified"
           /\ PodKey(Last(hist').pod) \in DOMAIN metadata)
              => LET k == PodKey(Last(hist').pod)
                     m == Unwrap(Last(hist').pod.metadata)
                 IN  /\ DOMAIN metadata' = DOMAIN metadata
                     /\ \A x \in DOMAIN metadata \ {k} : metadata'[x] = metadata[x]
                     /\ metadata'[k].name = metadata[k].name
                     /\ metadata'[k].namespace = metadata[k].namespace
                     /\ metadata'[k].labels = MapOf(m.labels)
                     /\ metadata'[k].annotations = MapOf(m.annotations)
       /\ KeyedByIdentity(metadata)
       /\ KeyedByIdentity(metadata')]_vars

\* C18 witness: a Modify event replaced the labels and the annotations of an
\* entry of a map of two entries
C18_Witness ==
    /\ hist # <<>>
    /\ Last(hist).kind = "Modified"
    /\ Cardinality(DOMAIN metadata) = 2
    /\ PodKey(Last(hist).pod) \in DOMAIN metadata
    /\ metadata[PodKey(Last(hist).pod)].labels = {}
    /\ metadata[PodKey(Last(hist).pod)].annotations = AnnotationsWeb
    /\ Len(listing) = 2
    /\ Unwrap(listing[2].metadata).labels = Some(LabelsWeb)
    /\ PodKey(listing[2]) = PodKey(Last(hist).pod)

\* the streams of a successful poll with one event at most
ShortFeeds == {<<>>} \cup {<<a>> : a \in FeedItems}

LockStep(i) ==
    \/ RunEnter(i)
    \/ RunLockInformer(i)
    \/ RunPollOkFrom(i, ShortFeeds)
    \/ RunPollFails(i)
    \/ RunNext(i)
    \/ RunUnlock(i)

NextLock ==
    \/ \E i \in Runs : LockStep(i)
    \/ ProcessStep

SpecLock == InitRun /\ [][NextLock]_vars

\* the watch loop and process both run: a holder of the lock goes on to
\* release it, process goes on with its loop, and the lock is handed to
\* process when it asks for it again and again
FairSpecLock ==
    /\ SpecLock
    /\ \A i \in Runs : WF_vars(RunUnlock(i))
    /\ WF_vars(ProcessSkip)
    /\ WF_vars(ProcessUnlock)
    /\ WF_vars(ProcessReturn)
    /\ SF_vars(ProcessLookup)

\* the lock on the map is held exactly inside the statement of handle_pod
\* that mutates the map and inside the lookup of process, never by a watch
\* loop that awaits a poll or the next item
LockHeldOnlyInMemory ==
    /\ (mlock = "watch") <=> (\E i \in Runs : rpc[i] = "handle")
    /\ (mlock = "process") <=> (ppc = "locked")
    /\ (\E i \in Runs : rpc[i] \in {"poll", "next"}) => mlock # "watch"

\* C19: the lock on the map is never held while the watch loop awaits a poll
\* or the next event, and every acquisition is released after the lookup or
\* the mutation in memory; so a call of process beside the watch loop always
\* returns.
C19_MapLockNeverHeldAcrossAwait ==
    /\ []LockHeldOnlyInMemory
    /\ (ppc # "returned") ~> (ppc = "returned")

\* C19 witness: process has a line to look up while the watch loop holds the
\* lock inside handle_pod
C19_Witness ==
    /\ mlock = "watch"
    /\ ppc = "scan"
    /\ pidx < Len(lines)
    /\ LooksUp(lines[pidx + 1])

(***************************************************************************)
(* journald: a consumer that also polls without having been woken.         *)
(***************************************************************************)
\* poll_next is called although the waker was not invoked: a Stream may be
\* polled at any time, as when its task is woken for another of its streams
SpuriousPoll ==
    /\ cpc = "suspended"
    /\ ~notified
    /\ cpc' = "idle"
    /\ UNCHANGED kvars
    /\ UNCHANGED xvars
    /\ UNCHANGED <<path, thread, receiver, waker, queue, connected, gen, wpc,
                   wpath, cursor, wline, wfail, journal, jevent, faults,
                   notified, lastPoll, accepted, yielded>>

NextAnyPoll ==
    \/ Next
    \/ SpuriousPoll

SpecAnyPoll == Init /\ [][NextAnyPoll]_vars

\* C20 as stated: the replacement worker gets a fresh shared state, so no
\* wake handle registered before the restart is in the shared state of the
\* worker that runs: every handle there was registered since that worker was
\* spawned.
C20_NoWakeHandleFromBeforeRestart ==
    IsSome(waker) => Unwrap(waker) = gen

\* C20 amended: a restart gives the replacement worker a fresh channel (a new
\* receiver, empty and connected) and the shared state of the stream itself:
\* the wake handle the shared state held before the restart is still in it
\* after the restart.
C20_RestartKeepsSharedState ==
    [][gen' # gen =>
          /\ receiver' = Some(gen') /\ receiver' # receiver
          /\ queue' = <<>> /\ connected'
          /\ waker' = waker]_vars

\* C20 witness: the replacement worker is at a call of call_waker with a wake
\* handle in the shared state that was registered before the restart
C20_Witness ==
    /\ gen > 1
    /\ wpc \in {"wake", "exit_wake"}
    /\ IsSome(waker)
    /\ Unwrap(waker) < gen

(***************************************************************************)
(* journald: the claims on the receiver and on the lines of an old queue.  *)
(***************************************************************************)
\* C21: from new() on, through polls (woken or not) and restarts, the stream
\* holds a receiver until it is dropped, so no poll returns end-of-stream:
\* every poll that returns gives one line (one more line yielded, taken from
\* the head of the queue) or Pending.
C21_PollNeverEndsStream ==
    [][/\ (cpc' # "dropped") => IsSome(receiver')
       /\ lastPoll' \in {"none", "ready", "pending"}
       /\ (PollTryRecv /\ cpc' = "idle") =>
              /\ lastPoll' = "ready"
              /\ queue # <<>>
              /\ yielded' = Append(yielded, Head(queue))
       /\ (cpc \in {"idle", "join", "register"} /\ cpc' = "suspended")
              => lastPoll' = "pending"]_vars

\* C21 witness: polls of the replacement worker's channel returned Pending
\* and then, after a wake, a line
C21_Witness ==
    /\ gen > 1
    /\ IsSome(receiver)
    /\ lastPoll = "ready"
    /\ yielded # <<>>
    /\ cpc = "idle"

\* C22: the lines a worker enqueued before it ended are not lost by the
\* restart: a poll of a disconnected queue that still holds lines yields the
\* head of the queue and replaces nothing, and the queue and the worker are
\* replaced only when the queue is empty and disconnected, with every line
\* the worker accepted yielded, in order.
C22_OldQueueDrainedBeforeRestart ==
    [][/\ (PollTryRecv /\ ~connected /\ queue # <<>>) =>
              /\ yielded' = Append(yielded, Head(queue))
              /\ queue' = Tail(queue)
              /\ lastPoll' = "ready"
              /\ gen' = gen /\ receiver' = receiver /\ cpc' = "idle"
       /\ (gen' # gen) =>
              /\ queue = <<>> /\ ~connected
              /\ yielded = accepted]_vars

\* C22 witness: the worker has ended with two lines enqueued, a poll has
\* yielded the first and the second is still in the disconnected queue
C22_Witness ==
    /\ WorkerFinished /\ ~connected
    /\ Len(accepted) = 2
    /\ yielded = <<accepted[1]>>
    /\ queue = <<accepted[2]>>
    /\ lastPoll = "ready"
    /\ cpc = "idle"

====
